---------------------------- MODULE Spec2Model ----------------------------
(***************************************************************************)
(* Model of flex-grow (src/src/lib.rs): ContainerBuilder::build, which     *)
(* allocates `available` units among children with a min, an optional max, *)
(* an optionality (Required, or Optional with a priority) and a grow       *)
(* weight.                                                                 *)
(*                                                                         *)
(* Representation choices:                                                 *)
(*  - usize values are naturals; the input sets below keep every sum far   *)
(*    below 2^64 and keep max >= min, so no usize addition overflows and   *)
(*    no subtraction underflows on the modelled inputs;                    *)
(*  - Option<usize> is a natural or None;                                  *)
(*  - the f64 grow weight is a non-negative whole number (0.0, 1.0, 2.0);  *)
(*    growths and their sum are then whole numbers that f64 represents     *)
(*    exactly, and `x as usize` is the truncation of the quotient.  For    *)
(*    the operand ranges of the input sets below the f64 expression        *)
(*    growths[i] * (available / sum_growths) truncates to the same         *)
(*    integer as the exact quotient;                                       *)
(*  - the opaque `content` payload of a child is never read by build and   *)
(*    is left out.                                                         *)
(***************************************************************************)
EXTENDS Integers, Sequences, FiniteSets

VARIABLES
    builder,         \* the ContainerBuilder consumed by build (its inputs)
    children,        \* build's local `children`
    available,       \* build's local `available`
    added_children,  \* build's local `added_children`
    growths,         \* build's local `growths`
    sum_growths,     \* build's local `sum_growths`
    given,           \* `given` of the last remainder pass, None before any
    pc,              \* position inside build
    result           \* "none" while running, then "Ok" or "NotEnoughSpace"

vars == <<builder, children, available, added_children, growths,
          sum_growths, given, pc, result>>

(***************************************************************************)
(* Bounds of the input sets.                                               *)
(***************************************************************************)
MaxChildren == 3
MaxAvailable == 6
MaxMargin == 1
MaxMin == 2
MaxSize == 2
MaxPriority == 1
MaxGrow == 1
MaxWidth == 60

\* Option::None
None == -1

(***************************************************************************)
(* Child and its fluent constraint setters.                                *)
(***************************************************************************)
Required == [tag |-> "Required"]

Optional(priority) == [tag |-> "Optional", priority |-> priority]

ChildConstraintsDefault ==
    [min |-> 0, max |-> None, optionality |-> Required, grow |-> 1]

ChildNew == [constraints |-> ChildConstraintsDefault, size |-> None]

optional_with_priority(c, priority) ==
    [c EXCEPT !.constraints.optionality = Optional(priority)]

optional(c) == optional_with_priority(c, 0)

with_min(c, min) == [c EXCEPT !.constraints.min = min]

with_max(c, max) == [c EXCEPT !.constraints.max = max]

clamp(c, min, max) ==
    [c EXCEPT !.constraints.min = min, !.constraints.max = max]

with_size(c, size) ==
    [c EXCEPT !.constraints.min = size, !.constraints.max = size]

with_grow(c, grow) == [c EXCEPT !.constraints.grow = grow]

is_optional(c) == c.constraints.optionality.tag = "Optional"

\* Container::sizes: 0 for the children that are not included
sizes(cs) ==
    [i \in 1..Len(cs) |-> IF cs[i].size = None THEN 0 ELSE cs[i].size]

(***************************************************************************)
(* First pass: the required children, in input order.                      *)
(***************************************************************************)
\* the margin charged to a child about to be added
MarginNever(added, margin_between) == 0

MarginAlways(added, margin_between) == margin_between

Margin(added, margin_between) == IF added > 0 THEN margin_between ELSE 0

NotEnoughOrEqual(min, margin, avail) == min + margin >= avail

NotEnough(min, margin, avail) == min + margin > avail

SeatedSizeLessMargin(min, margin) == min - margin

\* Some(child.constraints.min)
SeatedSize(min, margin) == min

RECURSIVE FirstPassLoop(_, _, _, _, _)
FirstPassLoop(cs, i, avail, added, margin_between) ==
    IF i > Len(cs)
    THEN [err |-> FALSE, children |-> cs, available |-> avail,
          added_children |-> added]
    ELSE IF is_optional(cs[i])
    THEN FirstPassLoop([cs EXCEPT ![i].size = None], i + 1, avail, added,
                       margin_between)
    ELSE LET margin == Margin(added, margin_between)
             min == cs[i].constraints.min
         IN  IF NotEnough(min, margin, avail)
             THEN [err |-> TRUE, children |-> cs, available |-> avail,
                   added_children |-> added]
             ELSE FirstPassLoop([cs EXCEPT ![i].size = SeatedSize(min, margin)],
                                i + 1,
                                (avail - min) - margin, added + 1,
                                margin_between)

(***************************************************************************)
(* Second pass: the optional children, by priority.                        *)
(***************************************************************************)
SortKeyAscending(c) == c.constraints.optionality.priority

\* std::cmp::Reverse(priority): a bigger priority sorts first
SortKey(c) ==
    IF is_optional(c) THEN 0 - c.constraints.optionality.priority ELSE 0

\* position at which h enters an already sorted rest: before the first
\* element whose key is not smaller (h came first in the input)
InsertPosUnstable(h, rest, cs) ==
    LET later == {k \in 1..Len(rest) : SortKey(cs[rest[k]]) > SortKey(cs[h])}
    IN  IF later = {} THEN Len(rest) + 1
        ELSE CHOOSE k \in later : \A l \in later : k <= l

InsertPos(h, rest, cs) ==
    LET later == {k \in 1..Len(rest) : SortKey(cs[rest[k]]) >= SortKey(cs[h])}
    IN  IF later = {} THEN Len(rest) + 1
        ELSE CHOOSE k \in later : \A l \in later : k <= l

\* slice::sort_by_key, a stable sort, on a sequence of child indices
RECURSIVE sort_by_key(_, _)
sort_by_key(idx, cs) ==
    IF idx = <<>> THEN <<>>
    ELSE LET h == Head(idx)
             rest == sort_by_key(Tail(idx), cs)
             p == InsertPos(h, rest, cs)
         IN  SubSeq(rest, 1, p - 1) \o <<h>> \o SubSeq(rest, p, Len(rest))

RECURSIVE IndicesFrom(_, _)
IndicesFrom(cs, i) ==
    IF i > Len(cs) THEN <<>>
    ELSE IF is_optional(cs[i]) THEN <<i>> \o IndicesFrom(cs, i + 1)
    ELSE IndicesFrom(cs, i + 1)

\* children.iter_mut().filter(is_optional), then sorted
optional_children(cs) == sort_by_key(IndicesFrom(cs, 1), cs)

RECURSIVE SecondPassLoop(_, _, _, _, _, _)
SecondPassLoop(cs, order, k, avail, added, margin_between) ==
    IF k > Len(order)
    THEN [children |-> cs, available |-> avail, added_children |-> added]
    ELSE LET i == order[k]
             margin == Margin(added, margin_between)
             min == cs[i].constraints.min
         IN  IF NotEnough(min, margin, avail)
             THEN SecondPassLoop(cs, order, k + 1, avail, added,
                                 margin_between)
             ELSE SecondPassLoop([cs EXCEPT ![i].size = SeatedSize(min, margin)],
                                 order, k + 1,
                                 (avail - min) - margin, added + 1,
                                 margin_between)

(***************************************************************************)
(* Growth: the remaining space goes to the growable children.              *)
(***************************************************************************)
\* grow * (match max { None => available, Some(max) => max - size })
GrowthOf(c, avail) ==
    IF c.size = None THEN 0
    ELSE c.constraints.grow
         * (IF c.constraints.max = None THEN avail
            ELSE c.constraints.max - c.size)

RECURSIVE SumSeq(_)
SumSeq(s) == IF s = <<>> THEN 0 ELSE Head(s) + SumSeq(Tail(s))

\* (growths[i] * (available / sum_growths)) as usize.  With sum_growths = 0
\* the f64 quotient is inf or NaN, growths[i] is 0, the product is NaN and
\* NaN as usize is 0.  Otherwise the cast truncates; on operands beyond the
\* input sets of this module the f64 product can fall just short of an
\* integral quotient (7.0 * (61.0 / 7.0) truncates to 60), and the remainder
\* loop then hands that unit out.
GrowthRounded(g, avail, sum) ==
    IF sum = 0 THEN 0 ELSE (2 * g * avail + sum) \div (2 * sum)

GrowthSaturating(g, avail, sum) ==
    IF sum = 0 THEN avail ELSE (g * avail) \div sum

Growth(g, avail, sum) == IF sum = 0 THEN 0 ELSE (g * avail) \div sum

RECURSIVE GrowLoop(_, _, _, _, _)
GrowLoop(cs, i, avail, gs, sum) ==
    IF i > Len(cs) THEN [children |-> cs, available |-> avail]
    ELSE IF cs[i].size = None THEN GrowLoop(cs, i + 1, avail, gs, sum)
    ELSE LET growth == Growth(gs[i], avail, sum)
         IN  GrowLoop([cs EXCEPT ![i].size = cs[i].size + growth], i + 1,
                      avail - growth, gs, sum)

(***************************************************************************)
(* Remainder: one unit at a time to the children below their max.          *)
(***************************************************************************)
CanTakeOneAtMax(c) ==
    c.constraints.max = None \/ c.size <= c.constraints.max

\* child.constraints.max.map_or(true, |max| size < max)
CanTakeOne(c) == c.constraints.max = None \/ c.size < c.constraints.max

\* one execution of the for loop inside `while available > 0`
RECURSIVE RemainderFor(_, _, _, _)
RemainderFor(cs, i, avail, g) ==
    IF i > Len(cs) THEN [children |-> cs, available |-> avail, given |-> g]
    ELSE IF cs[i].size = None THEN RemainderFor(cs, i + 1, avail, g)
    ELSE IF CanTakeOne(cs[i])
    THEN LET cs2 == [cs EXCEPT ![i].size = cs[i].size + 1]
         IN  IF avail - 1 = 0
             THEN [children |-> cs2, available |-> 0, given |-> g + 1]
             ELSE RemainderFor(cs2, i + 1, avail - 1, g + 1)
    ELSE RemainderFor(cs, i + 1, avail, g)

(***************************************************************************)
(* Inputs.                                                                 *)
(***************************************************************************)
\* every child the setters build with min in 1..MaxMin, no max or a max in
\* min..MaxSize, any optionality and any grow weight
Sized(min) ==
    {with_min(ChildNew, min)}
        \cup {IF max = min THEN with_size(ChildNew, min)
              ELSE clamp(ChildNew, min, max) : max \in min..MaxSize}

ChildShapes ==
    {with_grow(o, g) :
        o \in UNION {{c} \cup {optional_with_priority(c, p) :
                                  p \in 0..MaxPriority} :
                        c \in UNION {Sized(min) : min \in 1..MaxMin}},
        g \in 0..MaxGrow}

SmallBuilders ==
    [available : 0..MaxAvailable,
     margin_between : 0..MaxMargin,
     children : UNION {[1..n -> ChildShapes] : n \in 0..MaxChildren}]

\* the children of the crate's doc example (lib.rs) and of the flex-term
\* example (main.rs), which differ in quantity's priority and comments' grow
ExampleChildren(quantity, comments) ==
    <<clamp(ChildNew, 5, 10),
      optional_with_priority(with_size(ChildNew, 8), 7),
      quantity,
      with_size(ChildNew, 8),
      comments,
      optional_with_priority(with_size(ChildNew, 60), 9)>>

DocExample ==
    [available |-> 50, margin_between |-> 1,
     children |-> ExampleChildren(optional(with_size(ChildNew, 8)),
                                  with_grow(with_min(ChildNew, 10), 2))]

ExampleBuilders ==
    [available : 0..MaxWidth,
     margin_between : {1},
     children : {ExampleChildren(q, c) :
                    q \in {optional(with_size(ChildNew, 8)),
                           optional_with_priority(with_size(ChildNew, 8), 8)},
                    c \in {with_min(ChildNew, 10),
                           with_grow(with_min(ChildNew, 10), 2)}}]

\* entry to build: `let Self { mut available, mut children, margin_between }`
InitWith(b) ==
    /\ builder = b
    /\ children = b.children
    /\ available = b.available
    /\ added_children = 0
    /\ growths = <<>>
    /\ sum_growths = 0
    /\ given = None
    /\ pc = "first_pass"
    /\ result = "none"

Init == \E b \in SmallBuilders \cup ExampleBuilders : InitWith(b)

InitExamples == \E b \in ExampleBuilders : InitWith(b)

(***************************************************************************)
(* The steps of build.                                                     *)
(***************************************************************************)
FirstPassOk ==
    /\ pc = "first_pass"
    /\ LET r == FirstPassLoop(children, 1, available, 0,
                              builder.margin_between)
       IN  /\ ~r.err
           /\ children' = r.children
           /\ available' = r.available
           /\ added_children' = r.added_children
    /\ pc' = "second_pass"
    /\ UNCHANGED <<builder, growths, sum_growths, given, result>>

\* return Err(Error::NotEnoughSpace): the children are dropped
FirstPassErr ==
    /\ pc = "first_pass"
    /\ FirstPassLoop(children, 1, available, 0, builder.margin_between).err
    /\ children' = <<>>
    /\ pc' = "done"
    /\ result' = "NotEnoughSpace"
    /\ UNCHANGED <<builder, available, added_children, growths, sum_growths,
                   given>>

SecondPass ==
    /\ pc = "second_pass"
    /\ LET r == SecondPassLoop(children, optional_children(children), 1,
                               available, added_children,
                               builder.margin_between)
       IN  /\ children' = r.children
           /\ available' = r.available
           /\ added_children' = r.added_children
    /\ pc' = "grow"
    /\ UNCHANGED <<builder, growths, sum_growths, given, result>>

\* the growths and their sum, then each seated child's share of what is
\* available when its turn comes
DistributeGrowth ==
    /\ pc = "grow"
    /\ growths' = [i \in 1..Len(children) |-> GrowthOf(children[i], available)]
    /\ sum_growths' = SumSeq(growths')
    /\ LET r == GrowLoop(children, 1, available, growths', sum_growths')
       IN  /\ children' = r.children
           /\ available' = r.available
    /\ pc' = "remainder"
    /\ UNCHANGED <<builder, added_children, given, result>>

\* one iteration of `while available > 0`; a pass that gives nothing breaks
\* out of the loop, and build returns Ok(Container { children })
RemainderPass ==
    /\ pc = "remainder"
    /\ available > 0
    /\ LET r == RemainderFor(children, 1, available, 0)
       IN  /\ children' = r.children
           /\ available' = r.available
           /\ given' = r.given
           /\ pc' = IF r.given = 0 THEN "done" ELSE "remainder"
           /\ result' = IF r.given = 0 THEN "Ok" ELSE result
    /\ UNCHANGED <<builder, added_children, growths, sum_growths>>

\* the loop condition fails: Ok(Container { children })
RemainderEnd ==
    /\ pc = "remainder"
    /\ available = 0
    /\ pc' = "done"
    /\ result' = "Ok"
    /\ UNCHANGED <<builder, children, available, added_children, growths,
                   sum_growths, given>>

Next ==
    \/ FirstPassOk
    \/ FirstPassErr
    \/ SecondPass
    \/ DistributeGrowth
    \/ RemainderPass
    \/ RemainderEnd

Spec == Init /\ [][Next]_vars

\* build on the two examples alone
SpecExamples == InitExamples /\ [][Next]_vars

(***************************************************************************)
(* Vocabulary of the properties, all read off the inputs (builder) and     *)
(* the children's resolved sizes.                                          *)
(***************************************************************************)
Built == pc = "done" /\ result = "Ok"

Failed == pc = "done" /\ result = "NotEnoughSpace"

Index == 1..Len(builder.children)

Con(i) == builder.children[i].constraints

IsOpt(i) == is_optional(builder.children[i])

Prio(i) == Con(i).optionality.priority

IsSeated(i) == i \in DOMAIN children /\ children[i].size # None

SeatedSet == {i \in Index : IsSeated(i)}

RECURSIVE SumOver(_, _)
SumOver(S, f) ==
    IF S = {} THEN 0
    ELSE LET x == CHOOSE y \in S : TRUE IN f[x] + SumOver(S \ {x}, f)

SumSizes == SumOver(SeatedSet, [i \in Index |-> children[i].size])

MarginsBetween ==
    builder.margin_between
        * (IF SeatedSet = {} THEN 0 ELSE Cardinality(SeatedSet) - 1)

RequiredSet == {i \in Index : ~IsOpt(i)}

\* what the Required children take together: their mins and one margin
\* between each two of them
RequiredTotal ==
    SumOver(RequiredSet, [i \in Index |-> Con(i).min])
        + builder.margin_between
            * (IF RequiredSet = {} THEN 0 ELSE Cardinality(RequiredSet) - 1)

AfterRequired == builder.available - RequiredTotal

\* the Required children in input order, and the cost of the k-th of them
RequiredSeq(cs) == SelectSeq(cs, LAMBDA c : ~is_optional(c))

RequiredCost(cs, m, k) ==
    RequiredSeq(cs)[k].constraints.min + (IF k > 1 THEN m ELSE 0)

\* walking the Required children in input order, one of them does not fit
\* what the earlier ones left
RequiredShort(b) ==
    \E k \in 1..Len(RequiredSeq(b.children)) :
        RequiredCost(b.children, b.margin_between, k)
            > b.available
                - SumOver(1..(k - 1),
                          [j \in 1..(k - 1) |->
                              RequiredCost(b.children, b.margin_between, j)])

\* Optional k has its turn before Optional i: descending priority, then
\* insertion order
TurnBefore(k, i) ==
    \/ Prio(k) > Prio(i)
    \/ Prio(k) = Prio(i) /\ k < i

SeatedBefore(i) ==
    {k \in Index : IsOpt(k) /\ TurnBefore(k, i) /\ IsSeated(k)}

MarginAtTurn(i) ==
    IF Cardinality(RequiredSet) + Cardinality(SeatedBefore(i)) > 0
    THEN builder.margin_between ELSE 0

AvailableAtTurn(i) ==
    AfterRequired
        - SumOver(SeatedBefore(i),
                  [k \in Index |-> IF IsOpt(k)
                                   THEN Con(k).min + MarginAtTurn(k) ELSE 0])

FitsAtTurn(i) == Con(i).min + MarginAtTurn(i) <= AvailableAtTurn(i)

\* the space left by the Required children does not hold both minimums and
\* their margins
CannotBoth(i, j) ==
    Con(i).min + Con(j).min
        + builder.margin_between * (IF RequiredSet = {} THEN 1 ELSE 2)
        > AfterRequired

\* room of a seated child between its min and its max
Room(i) == IF Con(i).max = None THEN 0 ELSE Con(i).max - Con(i).min

Unbounded(i) == Con(i).max = None

\* what the two seating passes left
Slack == builder.available - SumOver(SeatedSet, [i \in Index |-> Con(i).min])
             - MarginsBetween

(***************************************************************************)
(* C1. Maximum respected: after a successful build every seated child      *)
(* that declares a max has size <= that max (inputs have max >= min and    *)
(* non-negative grow weights).                                             *)
(***************************************************************************)
C1_MaximumRespected ==
    Built =>
        \A i \in SeatedSet : Con(i).max # None => children[i].size <= Con(i).max

(***************************************************************************)
(* C2. Budget conservation: after a successful build the sizes of the      *)
(* seated children plus one margin for every seated child but the first    *)
(* are at most the budget; what build still holds as `available` is        *)
(* exactly the difference, so the margin was charged once per seated       *)
(* child except the first, in both passes.                                 *)
(***************************************************************************)
C2_BudgetConservation ==
    Built =>
        /\ SumSizes + MarginsBetween <= builder.available
        /\ available = builder.available - (SumSizes + MarginsBetween)

C2_Witness ==
    /\ Built
    /\ builder.margin_between > 0
    /\ \E i, j \in SeatedSet : ~IsOpt(i) /\ IsOpt(j)
    /\ \E i \in Index : ~IsSeated(i)
    /\ available = 0

(***************************************************************************)
(* C3. build returns NotEnoughSpace exactly when, walking the Required     *)
(* children in input order, one of them has min + margin greater than      *)
(* what the earlier Required children left; otherwise it succeeds and      *)
(* every Required child has a size.  The condition reads the Required      *)
(* children only, so Optional children neither cause nor prevent it.       *)
(***************************************************************************)
C3_FailsIffRequiredShort ==
    pc = "done" =>
        /\ result \in {"Ok", "NotEnoughSpace"}
        /\ result = "NotEnoughSpace" <=> RequiredShort(builder)
        /\ result = "Ok" => \A i \in RequiredSet : IsSeated(i)

\* a failure with an Optional child, too big to be seated, placed before
\* the Required child that does not fit
C3_Witness ==
    /\ Failed
    /\ \E i, j \in Index :
        /\ i < j
        /\ IsOpt(i) /\ Con(i).min > builder.available
        /\ ~IsOpt(j) /\ Con(j).min > builder.available

(***************************************************************************)
(* C4. Order-dependent failure, as claimed: there are a budget, a margin   *)
(* and two orderings of the same Required children such that build fails   *)
(* for one ordering and succeeds for the other.  The statement ranges      *)
(* over the bounded inputs (up to MaxChildren Required children) and does  *)
(* not depend on the state; it is evaluated on entry to build.             *)
(***************************************************************************)
Permuted(cs, p) == [i \in 1..Len(cs) |-> cs[p[i]]]

Permutations(n) ==
    {p \in [1..n -> 1..n] : \A i, j \in 1..n : p[i] = p[j] => i = j}

FirstPassFails(cs, avail, margin_between) ==
    FirstPassLoop(cs, 1, avail, 0, margin_between).err

C4_OrderDependentFailure ==
    pc = "first_pass" =>
        \E b \in SmallBuilders :
            /\ \A i \in 1..Len(b.children) : ~is_optional(b.children[i])
            /\ \E p \in Permutations(Len(b.children)) :
                /\ FirstPassFails(b.children, b.available, b.margin_between)
                /\ ~FirstPassFails(Permuted(b.children, p), b.available,
                                   b.margin_between)

(***************************************************************************)
(* C4, amended.  Whether build fails does not depend on the order of the   *)
(* children: it fails exactly when the Required children's mins plus one   *)
(* margin between each two of them exceed the budget, and the first pass   *)
(* gives the same verdict on every reordering of the same children.        *)
(***************************************************************************)
C4_OrderIndependentFailure ==
    pc = "done" =>
        /\ result = "NotEnoughSpace" <=> RequiredTotal > builder.available
        /\ \A p \in Permutations(Len(builder.children)) :
            FirstPassFails(Permuted(builder.children, p), builder.available,
                           builder.margin_between)
                <=> result = "NotEnoughSpace"

\* a failure on three Required children of different mins, the last of
\* which alone would fit
C4_Witness ==
    /\ Failed
    /\ Cardinality(RequiredSet) = MaxChildren
    /\ \E i, j \in RequiredSet : Con(i).min # Con(j).min
    /\ builder.margin_between > 0
    /\ \A i \in RequiredSet : Con(i).min <= builder.available

(***************************************************************************)
(* C5. Priority ordering, as claimed: in a successful build, of two        *)
(* Optional children with different priorities that cannot both be seated  *)
(* the higher-priority one is seated and the lower-priority one excluded.  *)
(***************************************************************************)
C5_PriorityOrdering ==
    Built =>
        \A hi, lo \in Index :
            (IsOpt(hi) /\ IsOpt(lo) /\ Prio(hi) > Prio(lo) /\ CannotBoth(hi, lo))
                => IsSeated(hi) /\ ~IsSeated(lo)

(***************************************************************************)
(* C5, amended.  ... the higher-priority one is seated and the lower-      *)
(* priority one excluded provided the higher-priority child's min plus     *)
(* margin fits what is left at its turn; the two are never both seated.    *)
(***************************************************************************)
C5_PriorityOrderingWhenFits ==
    Built =>
        \A hi, lo \in Index :
            (IsOpt(hi) /\ IsOpt(lo) /\ Prio(hi) > Prio(lo) /\ CannotBoth(hi, lo))
                => /\ ~(IsSeated(hi) /\ IsSeated(lo))
                   /\ FitsAtTurn(hi) => IsSeated(hi) /\ ~IsSeated(lo)

\* the higher-priority child was inserted after the lower-priority one,
\* which alone would have fit, and is the one seated
C5_Witness ==
    /\ Built
    /\ \E hi, lo \in Index :
        /\ IsOpt(hi) /\ IsOpt(lo) /\ Prio(hi) > Prio(lo) /\ CannotBoth(hi, lo)
        /\ lo < hi
        /\ Con(lo).min < Con(hi).min
        /\ IsSeated(hi) /\ ~IsSeated(lo)

(***************************************************************************)
(* C6. Minimum respected: every seated child has size >= its min; right    *)
(* after the two seating passes it has exactly its min, and neither the    *)
(* proportional growth nor a remainder pass decreases a size.              *)
(***************************************************************************)
C6_SeatedAtLeastMin ==
    \A i \in SeatedSet :
        /\ children[i].size >= Con(i).min
        /\ pc \in {"second_pass", "grow"} =>
            children[i].size = Con(i).min

C6_NeverDecreases ==
    pc \in {"grow", "remainder"} =>
        \A i \in SeatedSet :
            /\ i \in DOMAIN children'
            /\ children'[i].size >= children[i].size

C6_MinimumRespected == []C6_SeatedAtLeastMin /\ [][C6_NeverDecreases]_vars

\* a Required and an Optional child, both seated with a margin charged and
\* both grown
C6_Witness ==
    /\ Built
    /\ builder.margin_between > 0
    /\ \E i, j \in SeatedSet :
        /\ ~IsOpt(i) /\ IsOpt(j)
        /\ children[i].size > Con(i).min
        /\ children[j].size > Con(j).min

(***************************************************************************)
(* C7. Fixed-size children: a seated child with min = max = S has size S,  *)
(* whatever its grow weight and optionality, also when every seated child  *)
(* is fixed-size and slack remains.                                        *)
(***************************************************************************)
C7_FixedSize ==
    \A i \in SeatedSet : Con(i).max = Con(i).min => children[i].size = Con(i).min

\* all seated children are fixed-size, one is Optional, one has a grow
\* weight, and slack remains
C7_Witness ==
    /\ Built
    /\ available > 0
    /\ \A i \in SeatedSet : Con(i).max = Con(i).min
    /\ \E i, j \in SeatedSet : IsOpt(i) /\ ~IsOpt(j) /\ Con(i).grow > 0

(***************************************************************************)
(* C8. Reference scenario: budget 50, margin 1, name clamp(5,10), price    *)
(* with_size(8) optional priority 7, quantity with_size(8) optional        *)
(* (priority 0 or 8), total with_size(8), comments with_min(10) grow 2,    *)
(* vendor with_size(60) optional priority 9: build succeeds and sizes()    *)
(* is [7, 8, 8, 8, 15, 0].  The proportional step gives name               *)
(* floor(5 * 7 / 19) = 1 and comments floor(14 * 6 / 19) = 4 of the        *)
(* running remainder; the two units left go to name and comments.          *)
(***************************************************************************)
IsReference ==
    /\ builder.available = 50
    /\ builder.margin_between = 1
    /\ Len(builder.children) = 6
    /\ Con(5).grow = 2

C8_ReferenceScenario ==
    IsReference =>
        /\ pc = "done" =>
            result = "Ok" /\ sizes(children) = <<7, 8, 8, 8, 15, 0>>
        /\ pc = "grow" => available = 7
        /\ (pc = "remainder" /\ given = None) =>
            /\ growths = <<5, 0, 0, 0, 14, 0>>
            /\ sizes(children) = <<6, 8, 8, 8, 14, 0>>
            /\ available = 2

C8_Witness == Built /\ builder = DocExample

(***************************************************************************)
(* C9. Stable tie-break in the optional pass: Optional children have       *)
(* their turn in descending priority and, among equal priorities, in       *)
(* insertion order; each is seated iff its min + margin fits what is left  *)
(* at its turn, and a skipped child does not stop the pass.  So of two     *)
(* Optional children of equal priority and equal min the later one is      *)
(* seated only if the earlier one is.                                      *)
(***************************************************************************)
C9_StableTieBreak ==
    Built =>
        /\ \A i \in Index : IsOpt(i) => (IsSeated(i) <=> FitsAtTurn(i))
        /\ \A i, j \in Index :
            (/\ IsOpt(i) /\ IsOpt(j) /\ i < j
             /\ Prio(i) = Prio(j) /\ Con(i).min = Con(j).min
             /\ IsSeated(j)) => IsSeated(i)

\* a bigger higher-priority child is skipped, then of two equal children
\* of lower priority the earlier one is seated and the later one excluded
C9_Witness ==
    /\ Built
    /\ \E h, i, j \in Index :
        /\ IsOpt(h) /\ IsOpt(i) /\ IsOpt(j)
        /\ Prio(h) > Prio(i) /\ Con(h).min > Con(i).min /\ ~IsSeated(h)
        /\ i < j /\ Prio(i) = Prio(j) /\ Con(i).min = Con(j).min
        /\ IsSeated(i) /\ ~IsSeated(j)

(***************************************************************************)
(* C10. No-growth stability, as claimed: when the total growth is zero     *)
(* the proportional step changes no size and build succeeds; the           *)
(* remainder loop then distributes the whole remainder if at least one     *)
(* seated child has no max or is below its max, and otherwise gives        *)
(* nothing and leaves the remainder undistributed.                         *)
(***************************************************************************)
ProportionalStepIdle ==
    /\ (pc = "remainder" /\ given = None /\ sum_growths = 0) =>
        /\ available = Slack
        /\ \A i \in SeatedSet : children[i].size = Con(i).min
    /\ (pc = "remainder" /\ sum_growths = 0) =>
        available >= 0 /\ ENABLED (RemainderPass \/ RemainderEnd)

C10_NoGrowthStability ==
    /\ ProportionalStepIdle
    /\ (Built /\ sum_growths = 0) =>
        /\ IF \E i \in SeatedSet : Unbounded(i) \/ Room(i) > 0
           THEN available = 0 /\ SumSizes + MarginsBetween = builder.available
           ELSE /\ available = Slack
                /\ \A i \in SeatedSet : children[i].size = Con(i).min
                /\ Slack > 0 => given = 0

(***************************************************************************)
(* C10, amended.  ... the remainder loop distributes the whole remainder   *)
(* if at least one seated child has no max or the seated children's room   *)
(* below their max holds it; otherwise it brings every seated child to     *)
(* its max, stops after a pass that gives nothing and leaves the rest      *)
(* undistributed.  The units go one at a time in insertion order: of two   *)
(* seated children without max the earlier one gets as much as the later   *)
(* one, or one unit more.                                                  *)
(***************************************************************************)
TotalRoom == SumOver(SeatedSet, [i \in Index |-> Room(i)])

C10_NoGrowthStabilityRoom ==
    /\ ProportionalStepIdle
    /\ (Built /\ sum_growths = 0) =>
        /\ IF (\E i \in SeatedSet : Unbounded(i)) \/ TotalRoom >= Slack
           THEN available = 0 /\ SumSizes + MarginsBetween = builder.available
           ELSE /\ available = Slack - TotalRoom
                /\ \A i \in SeatedSet : children[i].size = Con(i).max
                /\ given = 0
        /\ \A i, j \in SeatedSet :
            (i < j /\ Unbounded(i) /\ Unbounded(j)) =>
                children[i].size - Con(i).min
                    \in {children[j].size - Con(j).min,
                         children[j].size - Con(j).min + 1}

\* no growth, a seated child without max next to one below its max, and a
\* remainder of several units handed out
C10_Witness ==
    /\ Built
    /\ sum_growths = 0
    /\ Slack > 1
    /\ available = 0
    /\ \E i, j \in SeatedSet : Unbounded(i) /\ ~Unbounded(j) /\ Room(j) > 0

=============================================================================
